---- MODULE Spec2Model ----
(***************************************************************************)
(* Model of the interactive session of mrkrabz: the App state of           *)
(* src/tui.rs, the key handling loop run_tui, and the action dispatch of   *)
(* run_interactive_mode in src/main.rs.                                    *)
(*                                                                         *)
(* Strings are sequences of string chunks.  The text buffer, the action    *)
(* string returned by run_tui and the repository URLs are sequences of     *)
(* one-character chunks, so that starts_with / strip_prefix are computed   *)
(* as the code computes them.  Option values are None, <<>>, and           *)
(* Some(x) is <<x>>.                                                       *)
(***************************************************************************)
EXTENDS Integers, Sequences, FiniteSets, TLC

VARIABLES
    input,            \* App.input: the text buffer
    results,          \* App.results
    list_state,       \* App.list_state.selected(): Option<usize>
    searching,        \* App.searching
    error_message,    \* App.error_message
    total_count,      \* App.total_count
    file_counts,      \* App.file_counts: HashMap<String, String>
    counting_files,   \* App.counting_files
    details_scroll,   \* App.details_scroll: u16
    repo_size_filter, \* App.repo_size_filter: Option<String>
    cloning,          \* App.cloning
    clone_status,     \* App.clone_status
    args_repo_size,   \* Args.repo_size, fixed for the whole session
    pc,               \* position of run_interactive_mode
    action,           \* the value run_tui returned: Option<String>
    key,              \* the key whose handler returned the pending action
    call,             \* the collaborator call in flight and its result
    restore_called,   \* restore_terminal has been called
    screen,           \* the frame of the last terminal.draw that succeeded
    filecount_script, \* Config.filecount_script as Config::load returns it
    script_name,      \* script_name of clone_and_count_files while it runs
    temp_dir          \* the directory github-search-<pid> exists

vars == <<input, results, list_state, searching, error_message, total_count,
          file_counts, counting_files, details_scroll, repo_size_filter,
          cloning, clone_status, args_repo_size, pc, action, key, call,
          restore_called, screen, filecount_script, script_name, temp_dir>>

app == <<input, results, list_state, searching, error_message, total_count,
         file_counts, counting_files, details_scroll, repo_size_filter,
         cloning, clone_status>>

----------------------------------------------------------------------------
(* Bounds of the model *)

\* longest result page the search backend returns
MaxResults == 3

\* cap on details_scroll in the session specification
MaxScroll == 1

\* longest filecount_script value of config.toml, in chunks
MaxName == 3

----------------------------------------------------------------------------
(* Option and string helpers *)

None == <<>>

Some(x) == <<x>>

IsSome(o) == o # <<>>

Unwrap(o) == o[1]

U16Max == 65535

StartsWith(s, p) == Len(s) >= Len(p) /\ SubSeq(s, 1, Len(p)) = p

StripPrefix(s, p) == SubSeq(s, Len(p) + 1, Len(s))

ClonePrefix == <<"C", "L", "O", "N", "E", ":">>

FileCountPrefix == <<"F", "I", "L", "E", "C", "O", "U", "N", "T", ":">>

HttpPrefix == <<"h", "t", "t", "p">>

IsPrefixOf(s, w) == Len(s) <= Len(w) /\ SubSeq(w, 1, Len(s)) = s

----------------------------------------------------------------------------
(* The environment: what the user types and what the collaborators return *)

\* the texts the user types, one character per key event
TypedWords == { <<"r">>, HttpPrefix }

Typable(s) == \E w \in TypedWords : IsPrefixOf(s, w)

DigitChars == <<"1", "2", "3", "4", "5", "6", "7", "8", "9">>

\* Repository.html_url.to_string() of the i-th repository of the index
UrlOf(i) == HttpPrefix \o <<DigitChars[i]>>

\* the i-th repository of the index; even ones carry no html_url
Repo(i) == [full_name |-> i, html_url |-> IF i % 2 = 1 THEN Some(UrlOf(i)) ELSE None]

\* the replies of a successful search: (items, total_count)
SearchReplies ==
    { [items |-> [i \in 1..n |-> Repo(i)], total |-> 10 * n] : n \in 0..MaxResults }

SearchErrors == { <<"rate limit exceeded">> }

ClonePaths == { "repositories/x" }

CloneErrors == { "Failed to clone repository" }

CountReports == { "12 files" }

CountErrors == { "not found" }

\* the error of clone_and_count_files when its git clone fails
ShallowCloneErrors == { "Failed to clone repository" }

\* values of --repo-size on the command line
ArgRepoSizes == { None, Some("LARGE"), Some("huge") }

\* the pieces the filecount_script values of config.toml are made of; no
\* piece is a concatenation of others, so two values are the same string
\* exactly when they are the same sequence
ScriptChunks == { "mac", "_", "bash", "zsh", "windows" }

\* the filecount_script values of config.toml
ScriptNames == UNION { [1..n -> ScriptChunks] : n \in 0..MaxName }

----------------------------------------------------------------------------
(* App methods, src/tui.rs *)

\* App::set_size_filter
set_size_filter(filter) == repo_size_filter' = filter

\* set_results selecting the first row only when no row is selected
set_results_keeps_selection(items, total) ==
    /\ results' = items
    /\ total_count' = Some(total)
    /\ list_state' = IF items # <<>> /\ list_state = None THEN Some(0) ELSE list_state
    /\ searching' = FALSE

\* App::set_results
set_results(items, total) ==
    /\ results' = items
    /\ total_count' = Some(total)
    /\ list_state' = IF items # <<>> THEN Some(0) ELSE list_state
    /\ searching' = FALSE

\* set_error leaving the searching flag as it is
set_error_keeps_searching(error) ==
    /\ error_message' = Some(error)
    /\ searching' = searching

\* App::set_error
set_error(error) ==
    /\ error_message' = Some(error)
    /\ searching' = FALSE

\* next stopping at the last row instead of wrapping around
next_without_wrap ==
    list_state' =
        IF results = <<>> THEN list_state
        ELSE IF IsSome(list_state)
             THEN (IF Unwrap(list_state) >= Len(results) - 1
                   THEN Some(Len(results) - 1)
                   ELSE Some(Unwrap(list_state) + 1))
             ELSE Some(0)

\* App::next
next ==
    list_state' =
        IF results = <<>> THEN list_state
        ELSE IF IsSome(list_state)
             THEN (IF Unwrap(list_state) >= Len(results) - 1
                   THEN Some(0)
                   ELSE Some(Unwrap(list_state) + 1))
             ELSE Some(0)

\* App::previous
previous ==
    list_state' =
        IF results = <<>> THEN list_state
        ELSE IF IsSome(list_state)
             THEN (IF Unwrap(list_state) = 0
                   THEN Some(Len(results) - 1)
                   ELSE Some(Unwrap(list_state) - 1))
             ELSE Some(0)

\* App::get_selected_repo: list_state.selected().and_then(|i| results.get(i))
get_selected_repo ==
    IF IsSome(list_state) /\ Unwrap(list_state) < Len(results)
    THEN Some(results[Unwrap(list_state) + 1])
    ELSE None

\* u16::saturating_add(1)
saturating_add(x) == IF x + 1 > U16Max THEN U16Max ELSE x + 1

\* u16::wrapping_sub(1)
wrapping_sub(x) == (x - 1) % (U16Max + 1)

\* u16::saturating_sub(1)
saturating_sub(x) == IF x - 1 < 0 THEN 0 ELSE x - 1

\* App::scroll_details_down
scroll_details_down == details_scroll' = saturating_add(details_scroll)

\* App::scroll_details_up
scroll_details_up == details_scroll' = saturating_sub(details_scroll)

\* App::reset_details_scroll
reset_details_scroll == details_scroll' = 0

----------------------------------------------------------------------------
(* Config, src/config.rs *)

\* default_filecount_script: the value when config.toml or its key is
\* missing
default_filecount_script == <<"mac", "_", "zsh">>

\* get_filecount_script_path sending "windows" to the default script
get_filecount_script_path_two_way(script) ==
    CASE script = <<"mac", "_", "bash">> -> "mac_linux_bash_filecount.sh"
      [] OTHER -> "filecount.sh"

\* Config::get_filecount_script_path
get_filecount_script_path(script) ==
    CASE script = <<"mac", "_", "bash">> -> "mac_linux_bash_filecount.sh"
      [] script = <<"windows">> -> "windows_filecount.ps1"
      [] OTHER -> "filecount.sh"

----------------------------------------------------------------------------
(* ui, src/tui.rs: the frame as the widgets rendered into each of the      *)
(* chunks of the layout                                                    *)

\* chunks[0]: the search box, its title carrying the size filter
input_box ==
    << [widget |-> "input",
        title |-> IF IsSome(repo_size_filter)
                  THEN <<" Search GitHub Repositories [Filter: ",
                         Unwrap(repo_size_filter), "] ">>
                  ELSE <<" Search GitHub Repositories ">>,
        text |-> input] >>

\* the result region testing the emptiness of results before the error
results_region_welcome_first ==
    IF searching
    THEN << [widget |-> "searching", text |-> <<"Searching...">>] >>
    ELSE IF results = <<>>
    THEN << [widget |-> "welcome"] >>
    ELSE IF IsSome(error_message)
    THEN << [widget |-> "error", text |-> <<"Error: ", Unwrap(error_message)>>] >>
    ELSE << [widget |-> "list", title |-> total_count, items |-> results,
             selected |-> list_state] >>

\* chunks[1]: the result region
results_region ==
    IF searching
    THEN << [widget |-> "searching", text |-> <<"Searching...">>] >>
    ELSE IF IsSome(error_message)
    THEN << [widget |-> "error", text |-> <<"Error: ", Unwrap(error_message)>>] >>
    ELSE IF results = <<>>
    THEN << [widget |-> "welcome"] >>
    ELSE << [widget |-> "list", title |-> total_count, items |-> results,
             selected |-> list_state] >>

\* the file status lines testing the cached count before the flags
file_status_cached_first(url) ==
    IF url \in DOMAIN file_counts
    THEN << <<"File Count:">> \o file_counts[url] >>
    ELSE IF counting_files
    THEN << <<"Files: ", "Cloning and counting...">> >>
    ELSE IF cloning
    THEN << <<"Cloning: ", "Please wait...">> >>
    ELSE << <<"Files: ", "Press 'f' to count">> >>

\* the file status lines pushed to details_text for the repository at url
file_status(url) ==
    IF counting_files
    THEN << <<"Files: ", "Cloning and counting...">> >>
    ELSE IF cloning
    THEN << <<"Cloning: ", "Please wait...">> >>
    ELSE IF url \in DOMAIN file_counts
    THEN << <<"File Count:">> \o file_counts[url] >>
    ELSE << <<"Files: ", "Press 'f' to count">> >>

\* chunks[2]: the detail panel; html_url.unwrap_or_default() is the empty
\* string for a repository without URL
details_panel ==
    IF IsSome(get_selected_repo)
    THEN LET repo == Unwrap(get_selected_repo)
             url == IF IsSome(repo.html_url) THEN Unwrap(repo.html_url) ELSE <<>>
         IN  << [widget |-> "details",
                 repo |-> repo.full_name,
                 clone |-> IF IsSome(clone_status)
                           THEN << <<"Clone: ">> \o Unwrap(clone_status) >>
                           ELSE << >>,
                 files |-> file_status(url),
                 url |-> url,
                 scroll |-> details_scroll] >>
    ELSE << [widget |-> "empty",
             text |-> <<"Select a repository to see details">>] >>

\* ui: what one terminal.draw puts on the screen
ui == [input |-> input_box, results |-> results_region, details |-> details_panel]

----------------------------------------------------------------------------
(* The session starts: setup_terminal has succeeded, App::new and the      *)
(* size filter of the command line are in place, and run_tui has drawn     *)
(* the first frame and waits for the first event                           *)

Init ==
    /\ input = <<>>
    /\ results = <<>>
    /\ list_state = None
    /\ searching = FALSE
    /\ error_message = None
    /\ total_count = None
    /\ file_counts = <<>>
    /\ counting_files = FALSE
    /\ details_scroll = 0
    /\ args_repo_size \in ArgRepoSizes
    /\ repo_size_filter = args_repo_size
    /\ cloning = FALSE
    /\ clone_status = None
    /\ pc = "run_tui"
    /\ action = None
    /\ key = None
    /\ call = None
    /\ restore_called = FALSE
    /\ filecount_script = default_filecount_script
    /\ script_name = None
    /\ temp_dir = FALSE
    /\ screen = ui

\* a session started with any filecount_script value in config.toml
InitConfig ==
    /\ input = <<>>
    /\ results = <<>>
    /\ list_state = None
    /\ searching = FALSE
    /\ error_message = None
    /\ total_count = None
    /\ file_counts = <<>>
    /\ counting_files = FALSE
    /\ details_scroll = 0
    /\ args_repo_size = None
    /\ repo_size_filter = args_repo_size
    /\ cloning = FALSE
    /\ clone_status = None
    /\ pc = "run_tui"
    /\ action = None
    /\ key = None
    /\ call = None
    /\ restore_called = FALSE
    /\ filecount_script \in ScriptNames
    /\ script_name = None
    /\ temp_dir = FALSE
    /\ screen = ui

----------------------------------------------------------------------------
(* run_tui, src/tui.rs: one action is one event: event::read returns it,   *)
(* its handler runs, and when the handler does not return, the loop draws  *)
(* the screen again and waits for the next event.  A handler either        *)
(* changes the App and loops, or returns to run_interactive_mode.          *)

\* the loop continues: run_interactive_mode is still inside run_tui, which
\* draws the screen and waits for the next event
Continue ==
    /\ UNCHANGED <<args_repo_size, pc, action, key, call, restore_called,
                   filecount_script, temp_dir, script_name>>
    /\ screen' = ui'

\* return Ok(Some(a)) from the handler of key k
Return(k, a) ==
    /\ pc' = "dispatch"
    /\ action' = Some(a)
    /\ key' = Some(k)
    /\ UNCHANGED <<app, args_repo_size, call, restore_called, screen,
                   filecount_script, temp_dir, script_name>>

\* the URL the open, count and clone bindings act on, if any
SelectedUrl ==
    IF results # <<>> /\ IsSome(list_state) /\ IsSome(get_selected_repo)
    THEN Unwrap(get_selected_repo).html_url
    ELSE None

\* Ctrl+C and Esc: return Ok(None); run_interactive_mode restores the
\* terminal and leaves its loop
KeyQuit ==
    /\ pc = "run_tui"
    /\ pc' = "done"
    /\ restore_called' = TRUE
    /\ UNCHANGED <<app, args_repo_size, action, key, call, screen,
                   filecount_script, temp_dir, script_name>>

\* event::read, or the terminal.draw of the iteration that follows,
\* returns Err: the ? operators of run_tui and of run_interactive_mode
\* return it to main
TerminalFails ==
    /\ pc = "run_tui"
    /\ pc' = "aborted"
    /\ UNCHANGED <<app, args_repo_size, action, key, call, restore_called,
                   screen, filecount_script, temp_dir, script_name>>

\* the Down handler without the reset of the detail scroll
KeyDownKeepsScroll ==
    /\ pc = "run_tui"
    /\ next
    /\ UNCHANGED <<input, results, searching, error_message, total_count,
                   file_counts, counting_files, details_scroll,
                   repo_size_filter, cloning, clone_status>>
    /\ Continue

KeyDown ==
    /\ pc = "run_tui"
    /\ next
    /\ reset_details_scroll
    /\ UNCHANGED <<input, results, searching, error_message, total_count,
                   file_counts, counting_files, repo_size_filter, cloning,
                   clone_status>>
    /\ Continue

KeyUp ==
    /\ pc = "run_tui"
    /\ previous
    /\ reset_details_scroll
    /\ UNCHANGED <<input, results, searching, error_message, total_count,
                   file_counts, counting_files, repo_size_filter, cloning,
                   clone_status>>
    /\ Continue

KeyLeft ==
    /\ pc = "run_tui"
    /\ scroll_details_up
    /\ UNCHANGED <<input, results, list_state, searching, error_message,
                   total_count, file_counts, counting_files,
                   repo_size_filter, cloning, clone_status>>
    /\ Continue

KeyRight ==
    /\ pc = "run_tui"
    /\ scroll_details_down
    /\ UNCHANGED <<input, results, list_state, searching, error_message,
                   total_count, file_counts, counting_files,
                   repo_size_filter, cloning, clone_status>>
    /\ Continue

\* Enter: returns the buffer when it is not empty, otherwise loops
KeyEnter ==
    /\ pc = "run_tui"
    /\ IF input # <<>>
       THEN Return("Enter", input)
       ELSE UNCHANGED app /\ Continue

\* Alt+O: returns the URL of the selected repository
KeyAltO ==
    /\ pc = "run_tui"
    /\ IF IsSome(SelectedUrl)
       THEN Return("Alt+O", Unwrap(SelectedUrl))
       ELSE UNCHANGED app /\ Continue

\* Alt+C deleting the last character of the buffer only
KeyAltCDeletesOne ==
    /\ pc = "run_tui"
    /\ input' = IF input = <<>> THEN input ELSE SubSeq(input, 1, Len(input) - 1)
    /\ UNCHANGED <<results, list_state, searching, error_message,
                   total_count, file_counts, counting_files, details_scroll,
                   repo_size_filter, cloning, clone_status>>
    /\ Continue

\* Alt+C: input.reset()
KeyAltC ==
    /\ pc = "run_tui"
    /\ input' = <<>>
    /\ UNCHANGED <<results, list_state, searching, error_message,
                   total_count, file_counts, counting_files, details_scroll,
                   repo_size_filter, cloning, clone_status>>
    /\ Continue

\* Alt+F: returns "FILECOUNT:" followed by the URL
KeyAltF ==
    /\ pc = "run_tui"
    /\ IF IsSome(SelectedUrl)
       THEN Return("Alt+F", FileCountPrefix \o Unwrap(SelectedUrl))
       ELSE UNCHANGED app /\ Continue

\* Alt+G returning what Alt+F returns
KeyAltGCounts ==
    /\ pc = "run_tui"
    /\ IF IsSome(SelectedUrl)
       THEN Return("Alt+G", FileCountPrefix \o Unwrap(SelectedUrl))
       ELSE UNCHANGED app /\ Continue

\* Alt+G: returns "CLONE:" followed by the URL
KeyAltG ==
    /\ pc = "run_tui"
    /\ IF IsSome(SelectedUrl)
       THEN Return("Alt+G", ClonePrefix \o Unwrap(SelectedUrl))
       ELSE UNCHANGED app /\ Continue

\* the digit keys with 0 leaving the size filter as it is
KeyDigitZeroKeeps(d) ==
    /\ pc = "run_tui"
    /\ set_size_filter(CASE d = "1" -> Some("small")
                         [] d = "2" -> Some("medium")
                         [] d = "3" -> Some("large")
                         [] d = "0" -> repo_size_filter)
    /\ UNCHANGED <<input, results, list_state, searching, error_message,
                   total_count, file_counts, counting_files, details_scroll,
                   cloning, clone_status>>
    /\ Continue

\* the digit keys 1, 2, 3 and 0
KeyDigit(d) ==
    /\ pc = "run_tui"
    /\ set_size_filter(CASE d = "1" -> Some("small")
                         [] d = "2" -> Some("medium")
                         [] d = "3" -> Some("large")
                         [] d = "0" -> None)
    /\ UNCHANGED <<input, results, list_state, searching, error_message,
                   total_count, file_counts, counting_files, details_scroll,
                   cloning, clone_status>>
    /\ Continue

\* any other character: input.handle_event inserts it at the cursor, which
\* is at the end of the buffer
KeyChar(c) ==
    /\ pc = "run_tui"
    /\ Typable(Append(input, c))
    /\ input' = Append(input, c)
    /\ UNCHANGED <<results, list_state, searching, error_message,
                   total_count, file_counts, counting_files, details_scroll,
                   repo_size_filter, cloning, clone_status>>
    /\ Continue

\* Backspace: input.handle_event deletes the character before the cursor
KeyBackspace ==
    /\ pc = "run_tui"
    /\ input # <<>>
    /\ input' = SubSeq(input, 1, Len(input) - 1)
    /\ UNCHANGED <<results, list_state, searching, error_message,
                   total_count, file_counts, counting_files, details_scroll,
                   repo_size_filter, cloning, clone_status>>
    /\ Continue

----------------------------------------------------------------------------
(* perform_search_with_filter, src/main.rs *)

\* str::to_lowercase on the size names of the model
to_lowercase(s) ==
    CASE s = "LARGE" -> "large"
      [] OTHER -> s

Ok(v) == [ok |-> TRUE, val |-> v]

Err(e) == [ok |-> FALSE, val |-> e]

\* the query string handed to octocrab, or the error returned before any
\* request is made; Args.language and Args.stars are not given
perform_search_with_filter(query, args_size, size_filter_override) ==
    LET size_category == IF IsSome(size_filter_override)
                         THEN size_filter_override
                         ELSE args_size
        size_cat == to_lowercase(Unwrap(size_category))
    IN  IF IsSome(size_category)
        THEN CASE size_cat = "small" -> Ok(query \o <<" ", "size:<25000">>)
               [] size_cat = "medium" -> Ok(query \o <<" ", "size:25000..100000">>)
               [] size_cat = "large" -> Ok(query \o <<" ", "size:>100000">>)
               [] OTHER -> Err(<<"Invalid repo_size '", Unwrap(size_category),
                                 "'. Use: small, medium, or large">>)
        ELSE Ok(query)

----------------------------------------------------------------------------
(* run_interactive_mode, src/main.rs: the dispatch of the action string    *)

\* back to the top of the loop: run_tui is called again, draws the screen
\* and waits for the next event
Loop ==
    /\ pc' = "run_tui"
    /\ action' = None
    /\ key' = None
    /\ call' = None
    /\ script_name' = None
    /\ UNCHANGED <<args_repo_size, restore_called, filecount_script, temp_dir>>
    /\ screen' = ui'

IsClone(a) == StartsWith(a, ClonePrefix)

IsFileCount(a) == ~IsClone(a) /\ StartsWith(a, FileCountPrefix)

IsUrl(a) == ~IsClone(a) /\ ~StartsWith(a, FileCountPrefix) /\ StartsWith(a, HttpPrefix)

IsQuery(a) == ~IsClone(a) /\ ~StartsWith(a, FileCountPrefix) /\ ~StartsWith(a, HttpPrefix)

\* a collaborator call that has not returned yet
Call(f, a) == Some([fn |-> f, arg |-> a, ret |-> None])

\* the collaborator call in flight returns r
Reply(r) == call' = Some([Unwrap(call) EXCEPT !.ret = Some(r)])

Pending == IsSome(call) /\ Unwrap(call).ret = None

Returned == IsSome(call) /\ IsSome(Unwrap(call).ret)

\* the value the collaborator call returned
Ret == Unwrap(Unwrap(call).ret)

\* the "CLONE:" branch without the clearing of clone_status
StartCloneKeepsStatus ==
    /\ pc = "dispatch"
    /\ IsClone(Unwrap(action))
    /\ cloning' = TRUE
    /\ call' = Call("clone_repository", StripPrefix(Unwrap(action), ClonePrefix))
    /\ pc' = "clone_call"
    /\ UNCHANGED <<input, results, list_state, searching, error_message,
                   total_count, file_counts, counting_files, details_scroll,
                   repo_size_filter, clone_status, args_repo_size, action,
                   key, restore_called, filecount_script, temp_dir, script_name>>
    /\ screen' = ui'

\* "CLONE:" branch up to the call of clone_repository
StartClone ==
    /\ pc = "dispatch"
    /\ IsClone(Unwrap(action))
    /\ cloning' = TRUE
    /\ clone_status' = None
    /\ call' = Call("clone_repository", StripPrefix(Unwrap(action), ClonePrefix))
    /\ pc' = "clone_call"
    /\ UNCHANGED <<input, results, list_state, searching, error_message,
                   total_count, file_counts, counting_files, details_scroll,
                   repo_size_filter, args_repo_size, action, key,
                   restore_called, filecount_script, temp_dir, script_name>>
    /\ screen' = ui'

\* clone_repository returns Ok(path) or Err(e)
CloneReply ==
    /\ pc = "clone_call"
    /\ Pending
    /\ \/ \E path \in ClonePaths : Reply(Ok(path))
       \/ \E e \in CloneErrors : Reply(Err(e))
    /\ UNCHANGED <<app, args_repo_size, pc, action, key, restore_called,
                   screen, filecount_script, temp_dir, script_name>>

\* the merge of the clone result with the error returned by ? instead of
\* stored
CloneReturnPropagates ==
    /\ pc = "clone_call"
    /\ Returned
    /\ UNCHANGED <<input, results, list_state, searching, error_message,
                   total_count, file_counts, counting_files, details_scroll,
                   repo_size_filter>>
    /\ IF Ret.ok
       THEN /\ clone_status' = Some(<<"Cloned to ", Ret.val>>)
            /\ cloning' = FALSE
            /\ Loop
       ELSE /\ pc' = "aborted"
            /\ UNCHANGED <<clone_status, cloning, args_repo_size, action, key,
                           call, restore_called, screen, filecount_script, temp_dir,
                           script_name>>

\* the merge of the clone result leaving the cloning flag set
CloneReturnKeepsCloning ==
    /\ pc = "clone_call"
    /\ Returned
    /\ clone_status' = IF Ret.ok
                       THEN Some(<<"Cloned to ", Ret.val>>)
                       ELSE Some(<<"Clone failed: ", Ret.val>>)
    /\ UNCHANGED <<input, results, list_state, searching, error_message,
                   total_count, file_counts, counting_files, details_scroll,
                   repo_size_filter, cloning>>
    /\ Loop

\* the merge of the clone result trying the clone again after a failure
CloneReturnRetries ==
    /\ pc = "clone_call"
    /\ Returned
    /\ UNCHANGED <<input, results, list_state, searching, error_message,
                   total_count, file_counts, counting_files, details_scroll,
                   repo_size_filter>>
    /\ IF Ret.ok
       THEN /\ clone_status' = Some(<<"Cloned to ", Ret.val>>)
            /\ cloning' = FALSE
            /\ Loop
       ELSE /\ call' = Call("clone_repository", Unwrap(call).arg)
            /\ UNCHANGED <<clone_status, cloning, args_repo_size, action, key,
                           pc, restore_called, screen, filecount_script, temp_dir,
                           script_name>>

\* the result of clone_repository is merged; a failure of the draw that
\* follows leaves the session as a failure of the next draw of run_tui does
CloneReturn ==
    /\ pc = "clone_call"
    /\ Returned
    /\ clone_status' = IF Ret.ok
                       THEN Some(<<"Cloned to ", Ret.val>>)
                       ELSE Some(<<"Clone failed: ", Ret.val>>)
    /\ cloning' = FALSE
    /\ UNCHANGED <<input, results, list_state, searching, error_message,
                   total_count, file_counts, counting_files, details_scroll,
                   repo_size_filter>>
    /\ Loop

\* an insert that drops the other entries of the map
insert_alone(map, k, v) == [u \in {k} |-> v]

\* HashMap::insert
insert(map, k, v) == [u \in DOMAIN map \cup {k} |-> IF u = k THEN v ELSE map[u]]

\* "FILECOUNT:" branch up to the call of clone_and_count_files
StartFileCount ==
    /\ pc = "dispatch"
    /\ IsFileCount(Unwrap(action))
    /\ counting_files' = TRUE
    /\ call' = Call("clone_and_count_files",
                    StripPrefix(Unwrap(action), FileCountPrefix))
    /\ script_name' = Some(get_filecount_script_path(filecount_script))
    /\ temp_dir' = TRUE
    /\ pc' = "count_call"
    /\ UNCHANGED <<input, results, list_state, searching, error_message,
                   total_count, file_counts, details_scroll,
                   repo_size_filter, cloning, clone_status, args_repo_size,
                   action, key, restore_called, filecount_script>>
    /\ screen' = ui'

\* clone_and_count_files returns Ok(count) after the script has run, or
\* Err(e) because the script is not in the project root; it calls
\* remove_dir_all(&temp_dir) before both
FileCountReply ==
    /\ pc = "count_call"
    /\ Pending
    /\ \/ \E count \in CountReports : Reply(Ok(count))
       \/ \E e \in CountErrors : Reply(Err(e))
    /\ temp_dir' = FALSE
    /\ UNCHANGED <<app, args_repo_size, pc, action, key, restore_called,
                   screen, filecount_script, script_name>>

\* clone_and_count_files returns Err(e) because git clone has exited with
\* a failure: the return follows the test of the exit status at once
FileCountCloneFails ==
    /\ pc = "count_call"
    /\ Pending
    /\ \E e \in ShallowCloneErrors : Reply(Err(e))
    /\ UNCHANGED <<app, args_repo_size, pc, action, key, restore_called,
                   screen, filecount_script, script_name, temp_dir>>

\* the merge of the count result storing the bare message of an error
FileCountReturnBareError ==
    /\ pc = "count_call"
    /\ Returned
    /\ LET url == StripPrefix(Unwrap(action), FileCountPrefix)
       IN  file_counts' = insert(file_counts, url, <<Ret.val>>)
    /\ counting_files' = FALSE
    /\ UNCHANGED <<input, results, list_state, searching, error_message,
                   total_count, details_scroll, repo_size_filter, cloning,
                   clone_status>>
    /\ Loop

\* the merge of the count result leaving the counting_files flag set
FileCountReturnKeepsCounting ==
    /\ pc = "count_call"
    /\ Returned
    /\ LET url == StripPrefix(Unwrap(action), FileCountPrefix)
       IN  file_counts' = insert(file_counts, url,
                                 IF Ret.ok THEN <<Ret.val>>
                                           ELSE <<"Error: ", Ret.val>>)
    /\ UNCHANGED <<input, results, list_state, searching, error_message,
                   total_count, details_scroll, repo_size_filter, cloning,
                   clone_status, counting_files>>
    /\ Loop

\* the result of clone_and_count_files is merged; a failure of the draw
\* that follows leaves the session as a failure of the next draw of
\* run_tui does
FileCountReturn ==
    /\ pc = "count_call"
    /\ Returned
    /\ LET url == StripPrefix(Unwrap(action), FileCountPrefix)
       IN  file_counts' = insert(file_counts, url,
                                 IF Ret.ok THEN <<Ret.val>>
                                           ELSE <<"Error: ", Ret.val>>)
    /\ counting_files' = FALSE
    /\ UNCHANGED <<input, results, list_state, searching, error_message,
                   total_count, details_scroll, repo_size_filter, cloning,
                   clone_status>>
    /\ Loop

\* the "http" branch restoring the terminal and leaving the loop
OpenBrowserBreaks ==
    /\ pc = "dispatch"
    /\ IsUrl(Unwrap(action))
    /\ pc' = "done"
    /\ restore_called' = TRUE
    /\ UNCHANGED <<app, args_repo_size, action, key, call, screen,
                   filecount_script, temp_dir, script_name>>

\* the "http" branch resetting the text buffer
OpenBrowserResetsInput ==
    /\ pc = "dispatch"
    /\ IsUrl(Unwrap(action))
    /\ input' = <<>>
    /\ UNCHANGED <<results, list_state, searching, error_message,
                   total_count, file_counts, counting_files, details_scroll,
                   repo_size_filter, cloning, clone_status>>
    /\ Loop

\* "http" branch: open_in_browser spawns the opener and the loop continues
OpenBrowser ==
    /\ pc = "dispatch"
    /\ IsUrl(Unwrap(action))
    /\ UNCHANGED app
    /\ Loop

\* the search branch without the clearing of error_message
StartSearchKeepsError ==
    /\ pc = "dispatch"
    /\ IsQuery(Unwrap(action))
    /\ searching' = TRUE
    /\ LET q == perform_search_with_filter(Unwrap(action), args_repo_size,
                                           repo_size_filter)
       IN  call' = IF q.ok THEN Call("search", q.val) ELSE None
    /\ pc' = "perform_search"
    /\ UNCHANGED <<input, results, list_state, total_count, file_counts,
                   counting_files, details_scroll, repo_size_filter, cloning,
                   clone_status, args_repo_size, action, key, restore_called,
                   error_message, filecount_script, temp_dir, script_name>>
    /\ screen' = ui'

\* the search branch without the draw before the request
StartSearchWithoutDraw ==
    /\ pc = "dispatch"
    /\ IsQuery(Unwrap(action))
    /\ searching' = TRUE
    /\ error_message' = None
    /\ LET q == perform_search_with_filter(Unwrap(action), args_repo_size,
                                           repo_size_filter)
       IN  call' = IF q.ok THEN Call("search", q.val) ELSE None
    /\ pc' = "perform_search"
    /\ UNCHANGED <<input, results, list_state, total_count, file_counts,
                   counting_files, details_scroll, repo_size_filter, cloning,
                   clone_status, args_repo_size, action, key, restore_called,
                   filecount_script, temp_dir, script_name, screen>>

\* search branch up to the await inside perform_search_with_filter: the
\* request is in flight, unless an invalid size name made the function
\* return Err before any request
StartSearch ==
    /\ pc = "dispatch"
    /\ IsQuery(Unwrap(action))
    /\ searching' = TRUE
    /\ error_message' = None
    /\ LET q == perform_search_with_filter(Unwrap(action), args_repo_size,
                                           repo_size_filter)
       IN  call' = IF q.ok THEN Call("search", q.val) ELSE None
    /\ pc' = "perform_search"
    /\ UNCHANGED <<input, results, list_state, total_count, file_counts,
                   counting_files, details_scroll, repo_size_filter, cloning,
                   clone_status, args_repo_size, action, key, restore_called,
                   filecount_script, temp_dir, script_name>>
    /\ screen' = ui'

\* the search request returns a page or an error
SearchReply ==
    /\ pc = "perform_search"
    /\ Pending
    /\ \/ \E r \in SearchReplies : Reply(Ok(r))
       \/ \E e \in SearchErrors : Reply(Err(e))
    /\ UNCHANGED <<app, args_repo_size, pc, action, key, restore_called,
                   screen, filecount_script, temp_dir, script_name>>

\* perform_search_with_filter returns and its result is merged
SearchReturn ==
    /\ pc = "perform_search"
    /\ LET q == perform_search_with_filter(Unwrap(action), args_repo_size,
                                           repo_size_filter)
       IN  \/ /\ q.ok
              /\ Returned
              /\ Ret.ok
              /\ set_results(Ret.val.items, Ret.val.total)
              /\ UNCHANGED error_message
           \/ /\ q.ok
              /\ Returned
              /\ ~Ret.ok
              /\ set_error(Ret.val)
              /\ UNCHANGED <<results, list_state, total_count>>
           \/ /\ ~q.ok
              /\ set_error(q.val)
              /\ UNCHANGED <<results, list_state, total_count>>
    /\ UNCHANGED <<input, file_counts, counting_files, details_scroll,
                   repo_size_filter, cloning, clone_status>>
    /\ Loop

\* the draw between setting the in-flight flag and calling the
\* collaborator returns Err, which the ? operator returns to main
DispatchDrawFails ==
    /\ pc = "dispatch"
    /\ \/ /\ IsClone(Unwrap(action))
          /\ cloning' = TRUE
          /\ clone_status' = None
          /\ UNCHANGED <<counting_files, searching, error_message>>
       \/ /\ IsFileCount(Unwrap(action))
          /\ counting_files' = TRUE
          /\ UNCHANGED <<cloning, clone_status, searching, error_message>>
       \/ /\ IsQuery(Unwrap(action))
          /\ searching' = TRUE
          /\ error_message' = None
          /\ UNCHANGED <<cloning, clone_status, counting_files>>
    /\ pc' = "aborted"
    /\ UNCHANGED <<input, results, list_state, total_count, file_counts,
                   details_scroll, repo_size_filter, args_repo_size, action,
                   key, call, restore_called, screen, filecount_script, temp_dir,
                   script_name>>

----------------------------------------------------------------------------
(* The session *)

\* Right while the detail panel is scrolled by less than MaxScroll
KeyRightCapped == details_scroll < MaxScroll /\ KeyRight

Next ==
    \/ KeyQuit
    \/ TerminalFails
    \/ KeyDown
    \/ KeyUp
    \/ KeyLeft
    \/ KeyRightCapped
    \/ KeyEnter
    \/ KeyAltO
    \/ KeyAltC
    \/ KeyAltF
    \/ KeyAltG
    \/ (\E d \in {"1", "2", "3", "0"} : KeyDigit(d))
    \/ (\E w \in TypedWords : \E i \in 1..Len(w) : KeyChar(w[i]))
    \/ KeyBackspace
    \/ StartClone
    \/ CloneReply
    \/ CloneReturn
    \/ StartFileCount
    \/ FileCountReply
    \/ FileCountReturn
    \/ OpenBrowser
    \/ StartSearch
    \/ SearchReply
    \/ SearchReturn
    \/ DispatchDrawFails

Spec == Init /\ [][Next]_vars

\* the scroll and navigation keys alone, details_scroll ranging over u16
NextScroll ==
    \/ KeyDown
    \/ KeyUp
    \/ KeyLeft
    \/ KeyRight

SpecScroll == Init /\ [][NextScroll]_vars

\* the steps of run_interactive_mode between the return of run_tui and the
\* next call of it
Dispatch ==
    \/ StartClone
    \/ CloneReply
    \/ CloneReturn
    \/ StartFileCount
    \/ FileCountReply
    \/ FileCountReturn
    \/ OpenBrowser
    \/ StartSearch
    \/ SearchReply
    \/ SearchReturn

\* the session in which no draw of the dispatch fails and the detail
\* panel is not scrolled
NextLive ==
    \/ KeyQuit
    \/ TerminalFails
    \/ KeyDown
    \/ KeyUp
    \/ KeyEnter
    \/ KeyAltO
    \/ KeyAltC
    \/ KeyAltF
    \/ KeyAltG
    \/ (\E d \in {"1", "2", "3", "0"} : KeyDigit(d))
    \/ (\E w \in TypedWords : \E i \in 1..Len(w) : KeyChar(w[i]))
    \/ KeyBackspace
    \/ Dispatch

\* run_interactive_mode is one sequential task: between the return of
\* run_tui and the next call of it the task keeps running, and every
\* collaborator call it awaits returns
SpecLive == Init /\ [][NextLive]_vars /\ WF_vars(Dispatch)

\* searching for "r" and counting the files of the selected repository,
\* under every filecount_script value of config.toml
NextConfig ==
    \/ KeyChar("r")
    \/ KeyEnter
    \/ KeyAltF
    \/ StartSearch
    \/ SearchReply
    \/ SearchReturn
    \/ StartFileCount
    \/ FileCountReply
    \/ FileCountReturn

SpecConfig == InitConfig /\ [][NextConfig]_vars

\* searching, selecting a repository and counting its files, the shallow
\* clone of clone_and_count_files failing or not
NextCount ==
    \/ KeyChar("r")
    \/ KeyEnter
    \/ KeyDown
    \/ KeyUp
    \/ KeyAltF
    \/ (\E d \in {"1", "2", "3", "0"} : KeyDigit(d))
    \/ StartSearch
    \/ SearchReply
    \/ SearchReturn
    \/ StartFileCount
    \/ FileCountReply
    \/ FileCountCloneFails
    \/ FileCountReturn

SpecCount == Init /\ [][NextCount]_vars

----------------------------------------------------------------------------
(* Properties *)

\* a step in which set_results was called by a successful search
SetResultsStep == pc = "perform_search" /\ pc' = "run_tui" /\ error_message' = None

\* C1: in every reachable state the selection is None or an index below
\* the length of results
C1_SelectionValid ==
    list_state = None \/ Unwrap(list_state) < Len(results)

\* C2: after set_results is called with a non-empty result sequence the
\* selection is Some(0), whatever the results and the selection were
C2_NonEmptySelectsFirst ==
    [][(SetResultsStep /\ results' # <<>>) => list_state' = Some(0)]_vars

\* the first row is selected in a full result page that has replaced an
\* earlier one while the detail panel was scrolled
C2_Witness ==
    /\ pc = "run_tui"
    /\ Len(results) = MaxResults
    /\ list_state = Some(0)
    /\ details_scroll > 0

\* C3: after set_results is called with an empty result sequence the
\* selection is None, from any prior state
C3_EmptySelectsNone ==
    [][(SetResultsStep /\ results' = <<>>) => list_state' = None]_vars

\* C4: with n > 0 results Down moves the selection from Some(i) to
\* Some(i+1), and from Some(n-1) to Some(0); Up moves it from Some(i) to
\* Some(i-1), and from Some(0) to Some(n-1)
C4_NavigationWraps ==
    [][(results # <<>> /\ IsSome(list_state)) =>
          LET n == Len(results)
              i == Unwrap(list_state)
          IN  /\ KeyDown => list_state' = IF i < n - 1 THEN Some(i + 1) ELSE Some(0)
              /\ KeyUp => list_state' = IF i > 0 THEN Some(i - 1) ELSE Some(n - 1)
      ]_vars

\* the last row of a three row page is selected, which Down reaches only
\* by two steps from the first row and Up by wrapping around
C4_Witness ==
    /\ pc = "run_tui"
    /\ Len(results) = 3
    /\ list_state = Some(2)

\* C5: when results is empty the selection is None after Down or Up
C5_EmptyNavigationNone ==
    [][((KeyDown \/ KeyUp) /\ results = <<>>) => list_state' = None]_vars

\* what each of the four scroll and navigation keys does to
\* details_scroll when pressed in the current state, Right moving it to
\* the offset right
ScrollKeys(right) ==
    /\ ENABLED (KeyLeft /\ details_scroll' = IF details_scroll > 0
                                             THEN details_scroll - 1 ELSE 0)
    /\ ENABLED (KeyRight /\ details_scroll' = right)
    /\ ENABLED (KeyDown /\ details_scroll' = 0)
    /\ ENABLED (KeyUp /\ details_scroll' = 0)

\* C6 as stated: details_scroll is never below 0; Left decrements it when
\* it is positive and leaves it at 0, Right increments it by 1, a reset
\* sets it to 0
C6_ScrollAsStated ==
    /\ details_scroll >= 0
    /\ pc = "run_tui" => ScrollKeys(details_scroll + 1)

\* C6 amended: as stated, but Right leaves details_scroll at 65535 when
\* it is 65535
C6_ScrollSaturates ==
    /\ details_scroll >= 0
    /\ pc = "run_tui" => ScrollKeys(IF details_scroll < U16Max
                                     THEN details_scroll + 1 ELSE U16Max)

\* the detail panel is scrolled to the last offset a u16 holds
C6_Witness == details_scroll = U16Max

\* C7: every Down or Up key leaves details_scroll at 0
C7_NavigationResetsScroll ==
    [][(KeyDown \/ KeyUp) => details_scroll' = 0]_vars

\* the selection has been moved off the first row, which only Down and Up
\* do, and the detail panel is not scrolled
C7_Witness ==
    /\ pc = "run_tui"
    /\ list_state = Some(1)
    /\ details_scroll = 0

\* C8: whenever a step changes the selection, details_scroll is 0 after it
C8_SelectionChangeResetsScroll ==
    [][list_state' # list_state => details_scroll' = 0]_vars

\* C9: Enter on a non-empty buffer is handled as a search of that text:
\* searching is set and, unless the draw fails, the request in flight, if
\* any, is a search whose query starts with the buffer
C9_EnterSubmitsSearch ==
    [][(pc = "dispatch" /\ key = Some("Enter")) =>
          /\ pc' \in {"perform_search", "aborted"}
          /\ searching'
          /\ IsSome(call') =>
                /\ Unwrap(call').fn = "search"
                /\ StartsWith(Unwrap(call').arg, input)
      ]_vars

\* the size fragment the claim gives for a size filter
SizeFragment(filter) ==
    CASE filter = None -> <<>>
      [] filter = Some("small") -> <<" ", "size:<25000">>
      [] filter = Some("medium") -> <<" ", "size:25000..100000">>
      [] filter = Some("large") -> <<" ", "size:>100000">>

\* C10: the query of every search request is the submitted text followed
\* by the fragment of the size filter the App holds, and by nothing when
\* that filter is None
C10_SearchUsesAppFilter ==
    (/\ IsSome(call)
     /\ Unwrap(call).fn = "search"
     /\ repo_size_filter \in {None, Some("small"), Some("medium"), Some("large")})
    => Unwrap(call).arg = Unwrap(action) \o SizeFragment(repo_size_filter)

\* the size filter the claim gives for a digit key
DigitFilter(d) ==
    CASE d = "1" -> Some("small")
      [] d = "2" -> Some("medium")
      [] d = "3" -> Some("large")
      [] d = "0" -> None

\* C11: pressed in any state of the loop, the keys 1, 2, 3 and 0 set the
\* size filter to small, medium, large and None and return no action; no
\* other step changes the size filter
C11_FilterOnlyByDigits ==
    /\ [](pc = "run_tui" =>
            \A d \in {"1", "2", "3", "0"} :
                ENABLED (/\ KeyDigit(d)
                         /\ repo_size_filter' = DigitFilter(d)
                         /\ pc' = "run_tui"
                         /\ action' = None))
    /\ [][repo_size_filter' # repo_size_filter =>
            \E d \in {"1", "2", "3", "0"} : KeyDigit(d)]_vars

\* the filter set with the key 2 is still held after a failed search, a
\* clone and a file count
C11_Witness ==
    /\ pc = "run_tui"
    /\ repo_size_filter = Some("medium")
    /\ IsSome(error_message)
    /\ IsSome(clone_status)
    /\ DOMAIN file_counts # {}
    /\ IsSome(list_state)

\* the text stored for the result r of clone_and_count_files
CountText(r) == IF r.ok THEN <<r.val>> ELSE <<"Error: ", r.val>>

\* C12: while clone_and_count_files runs for the URL, counting_files is
\* set; when it has returned, the entry of the URL is the report on
\* success and "Error: " followed by the message on failure, and
\* counting_files is false
C12_FileCountOutcome ==
    [][/\ pc' = "count_call" =>
            /\ counting_files'
            /\ Unwrap(call').fn = "clone_and_count_files"
            /\ FileCountPrefix \o Unwrap(call').arg = Unwrap(action')
       /\ (pc = "count_call" /\ Returned) =>
            /\ Unwrap(call).arg \in DOMAIN file_counts'
            /\ file_counts'[Unwrap(call).arg] = CountText(Ret)
            /\ ~counting_files'
      ]_vars

\* a failed count has been stored for the first repository and the loop
\* is reading keys again
C12_Witness ==
    /\ pc = "run_tui"
    /\ ~counting_files
    /\ UrlOf(1) \in DOMAIN file_counts
    /\ file_counts[UrlOf(1)] = <<"Error: ", "not found">>

C14_CloneOutcome ==
    [][/\ pc' = "clone_call" =>
            /\ cloning'
            /\ clone_status' = None
            /\ Unwrap(call').fn = "clone_repository"
       /\ (pc = "clone_call" /\ Returned) =>
            /\ clone_status' = IF Ret.ok
                               THEN Some(<<"Cloned to ", Ret.val>>)
                               ELSE Some(<<"Clone failed: ", Ret.val>>)
            /\ ~cloning'
       /\ pc \in {"dispatch", "clone_call"} /\ pc' \in {"clone_call", "run_tui"} =>
            /\ results' = results
            /\ list_state' = list_state
      ]_vars

\* a clone of the third repository has failed and been stored
C14_Witness ==
    /\ pc = "run_tui"
    /\ ~cloning
    /\ clone_status = Some(<<"Clone failed: ", "Failed to clone repository">>)
    /\ list_state = Some(2)

\* the search being merged has failed: the request returned an error, or
\* an invalid size name returned one before any request
SearchFailed ==
    /\ pc = "perform_search"
    /\ \/ call = None
       \/ Returned /\ ~Ret.ok

\* the message of the failed search
SearchFailure == IF call = None
                 THEN perform_search_with_filter(Unwrap(action), args_repo_size,
                                                 repo_size_filter).val
                 ELSE Ret.val

\* the search being merged has returned a page
SearchSucceeded == pc = "perform_search" /\ Returned /\ Ret.ok

\* C15: a failed search stores its message in error_message and clears
\* searching, and no step from the submission to the merge of the failure
\* changes results
C15_FailedSearchKeepsResults ==
    [][/\ SearchFailed =>
            /\ error_message' = Some(SearchFailure)
            /\ ~searching'
       /\ (pc = "run_tui" /\ pc' = "dispatch") => results' = results
       /\ (pc \in {"dispatch", "perform_search"} /\ ~SearchSucceeded) =>
            results' = results
      ]_vars

\* a search has failed while a page of results was shown
C15_Witness ==
    /\ pc = "run_tui"
    /\ error_message = Some(<<"rate limit exceeded">>)
    /\ ~searching
    /\ Len(results) = MaxResults

\* C16: error_message is None while a search is in flight and after the
\* merge of a successful search, and it becomes Some only by the merge of
\* a failed search
C16_ErrorClearedBySearch ==
    [][/\ pc' = "perform_search" => error_message' = None
       /\ SearchSucceeded => error_message' = None
       /\ (IsSome(error_message') /\ error_message' # error_message) =>
            SearchFailed
      ]_vars

\* a page of results is shown without an error although the size name of
\* the command line makes every search fail until a digit key is pressed
C16_Witness ==
    /\ pc = "run_tui"
    /\ args_repo_size = Some("huge")
    /\ error_message = None
    /\ results # <<>>

C18_OpenBrowserKeepsApp ==
    [][/\ (pc = "dispatch" /\ IsUrl(Unwrap(action))) => UNCHANGED app
       /\ key' = Some("Alt+O") => UNCHANGED app
      ]_vars

\* the URL of the selected repository is about to be opened while every
\* field of the App holds something
C18_Witness ==
    /\ pc = "dispatch"
    /\ key = Some("Alt+O")
    /\ IsUrl(Unwrap(action))
    /\ input # <<>>
    /\ details_scroll > 0
    /\ IsSome(repo_size_filter)
    /\ IsSome(clone_status)
    /\ DOMAIN file_counts # {}

\* C19: the merge of a failed search, clone or file count stores the
\* message in error_message, clone_status or the entry of the URL and goes
\* back to run_tui
C19_FailuresAreStored ==
    [][/\ SearchFailed =>
            /\ pc' = "run_tui"
            /\ error_message' = Some(SearchFailure)
       /\ (pc = "clone_call" /\ Returned /\ ~Ret.ok) =>
            /\ pc' = "run_tui"
            /\ clone_status' = Some(<<"Clone failed: ", Ret.val>>)
       /\ (pc = "count_call" /\ Returned /\ ~Ret.ok) =>
            /\ pc' = "run_tui"
            /\ file_counts'[Unwrap(call).arg] = <<"Error: ", Ret.val>>
      ]_vars

\* a search, a clone and a file count have failed and the loop is reading
\* keys
C19_Witness ==
    /\ pc = "run_tui"
    /\ IsSome(error_message)
    /\ clone_status = Some(<<"Clone failed: ", "Failed to clone repository">>)
    /\ \E u \in DOMAIN file_counts : file_counts[u] = <<"Error: ", "not found">>

\* C20: when the session has aborted on a failure of the terminal,
\* restore_terminal has been called
C20_AbortRestoresTerminal ==
    pc = "aborted" => restore_called

\* the in-flight flags that are set
FlagsSet ==
    {f \in {"searching", "counting_files", "cloning"} :
        \/ f = "searching" /\ searching
        \/ f = "counting_files" /\ counting_files
        \/ f = "cloning" /\ cloning}

\* C21: in every reachable state at most one of searching, counting_files
\* and cloning is true, and at most one collaborator call is in flight
C21_OneCallInFlight ==
    /\ Cardinality(FlagsSet) <= 1
    /\ IsSome(call) => FlagsSet = CASE Unwrap(call).fn = "search" -> {"searching"}
                                    [] Unwrap(call).fn = "clone_repository" -> {"cloning"}
                                    [] Unwrap(call).fn = "clone_and_count_files" -> {"counting_files"}

\* a clone is in flight after a search and a file count have completed
C21_Witness ==
    /\ pc = "clone_call"
    /\ Pending
    /\ cloning
    /\ total_count # None
    /\ DOMAIN file_counts # {}

\* C22: each flag is set only while run_interactive_mode is between the
\* start and the merge of its call (or has aborted there), and all three
\* are false whenever run_tui waits for an event
C22_FlagsOnlyInFlight ==
    /\ searching => pc \in {"perform_search", "aborted"}
    /\ counting_files => pc \in {"count_call", "aborted"}
    /\ cloning => pc \in {"clone_call", "aborted"}
    /\ pc = "run_tui" => FlagsSet = {}

\* run_tui waits for an event after a failed search, a clone and a file
\* count have completed
C22_Witness ==
    /\ pc = "run_tui"
    /\ FlagsSet = {}
    /\ IsSome(error_message)
    /\ IsSome(clone_status)
    /\ DOMAIN file_counts # {}
    /\ input = <<"r">>

\* C23: ui renders exactly one widget into the result region: the
\* searching placeholder if searching, otherwise the error if
\* error_message is set, otherwise the welcome text if results is empty,
\* otherwise the list
C23_ResultViewPriority ==
    /\ Len(results_region) = 1
    /\ results_region[1].widget =
         CASE searching -> "searching"
           [] ~searching /\ IsSome(error_message) -> "error"
           [] ~searching /\ error_message = None /\ results = <<>> -> "welcome"
           [] ~searching /\ error_message = None /\ results # <<>> -> "list"
    /\ pc \in {"run_tui", "clone_call", "count_call", "perform_search"} =>
         screen.results = results_region

\* the first search has failed: the screen shows the error, not the
\* welcome text, although results is empty
C23_Witness ==
    /\ pc = "run_tui"
    /\ results = <<>>
    /\ IsSome(error_message)
    /\ screen.results[1].widget = "error"

\* the URL the Alt+O, Alt+F and Alt+G bindings carry: that of the
\* repository at list_state in results, when there is one and it has a URL
UrlAtSelection ==
    IF /\ IsSome(list_state)
       /\ Unwrap(list_state) < Len(results)
       /\ IsSome(results[Unwrap(list_state) + 1].html_url)
    THEN results[Unwrap(list_state) + 1].html_url
    ELSE None

\* what the binding k returns for the URL url
Emitted(k, url) ==
    CASE k = "Alt+O" -> url
      [] k = "Alt+F" -> FileCountPrefix \o url
      [] k = "Alt+G" -> ClonePrefix \o url

\* C24: whenever run_tui waits for an event, Alt+O, Alt+F and Alt+G
\* return the URL of the selected repository, bare, after "FILECOUNT:" and
\* after "CLONE:", exactly when a repository is selected and has a URL,
\* and otherwise return nothing; the App is unchanged by the key; the
\* dispatch takes the three actions to open_in_browser,
\* clone_and_count_files and clone_repository
C24_BindingsCarrySelectedUrl ==
    /\ pc = "run_tui" =>
         /\ ENABLED (KeyAltO /\ UNCHANGED app /\
                     IF IsSome(UrlAtSelection)
                     THEN pc' = "dispatch" /\ action' = Some(Emitted("Alt+O", Unwrap(UrlAtSelection)))
                     ELSE pc' = "run_tui" /\ action' = None)
         /\ ENABLED (KeyAltF /\ UNCHANGED app /\
                     IF IsSome(UrlAtSelection)
                     THEN pc' = "dispatch" /\ action' = Some(Emitted("Alt+F", Unwrap(UrlAtSelection)))
                     ELSE pc' = "run_tui" /\ action' = None)
         /\ ENABLED (KeyAltG /\ UNCHANGED app /\
                     IF IsSome(UrlAtSelection)
                     THEN pc' = "dispatch" /\ action' = Some(Emitted("Alt+G", Unwrap(UrlAtSelection)))
                     ELSE pc' = "run_tui" /\ action' = None)
    /\ (pc = "dispatch" /\ key = Some("Alt+O")) => IsUrl(Unwrap(action))
    /\ (pc = "dispatch" /\ key = Some("Alt+F")) => IsFileCount(Unwrap(action))
    /\ (pc = "dispatch" /\ key = Some("Alt+G")) => IsClone(Unwrap(action))

\* Alt+G has returned the clone request of the third repository
C24_Witness ==
    /\ pc = "dispatch"
    /\ key = Some("Alt+G")
    /\ list_state = Some(2)
    /\ action = Some(ClonePrefix \o UrlOf(3))

\* C25: whenever run_tui waits for an event, Alt+C leaves the buffer
\* empty, returns no action and changes no other field of the App
C25_AltCClearsInput ==
    pc = "run_tui" =>
        ENABLED (/\ KeyAltC
                 /\ input' = <<>>
                 /\ UNCHANGED <<results, list_state, searching, error_message,
                                total_count, file_counts, counting_files,
                                details_scroll, repo_size_filter, cloning,
                                clone_status>>
                 /\ pc' = "run_tui"
                 /\ action' = None)

\* the buffer is empty below a full result page, which a search of a
\* non-empty buffer has returned
C25_Witness ==
    /\ pc = "run_tui"
    /\ input = <<>>
    /\ Len(results) = MaxResults
    /\ IsSome(repo_size_filter)
    /\ screen.input[1].text = <<>>

\* C26: the script clone_and_count_files runs is
\* mac_linux_bash_filecount.sh for "mac_bash", windows_filecount.ps1 for
\* "windows" and filecount.sh for every other filecount_script value
C26_ScriptPath ==
    /\ get_filecount_script_path(default_filecount_script) = "filecount.sh"
    /\ IsSome(script_name) =>
         /\ filecount_script = <<"mac", "_", "bash">> =>
              Unwrap(script_name) = "mac_linux_bash_filecount.sh"
         /\ filecount_script = <<"windows">> =>
              Unwrap(script_name) = "windows_filecount.ps1"
         /\ filecount_script \notin { <<"mac", "_", "bash">>, <<"windows">> } =>
              Unwrap(script_name) = "filecount.sh"

\* a file count runs under filecount_script = "windows"
C26_Witness ==
    /\ pc = "count_call"
    /\ filecount_script = <<"windows">>
    /\ script_name = Some("windows_filecount.ps1")

\* C27: while a search, clone or file count is in flight the screen shows
\* the App with the in-flight flag set, and whenever run_tui waits for an
\* event the screen shows the App as the last merge left it
C27_RedrawAroundDispatch ==
    /\ pc \in {"clone_call", "count_call", "perform_search"} =>
         /\ FlagsSet # {}
         /\ screen = ui
    /\ pc = "run_tui" => screen = ui
    /\ pc = "perform_search" => screen.results[1].widget = "searching"

\* the request of a second search is in flight: the screen shows the
\* searching placeholder above the details of the selected repository
C27_Witness ==
    /\ pc = "perform_search"
    /\ Pending
    /\ results # <<>>
    /\ screen.results[1].widget = "searching"
    /\ screen.details[1].widget = "details"

\* C28: for a selected repository the detail panel carries exactly one
\* file status: counting if counting_files, otherwise cloning if cloning,
\* otherwise the cached entry of the URL of the repository if there is
\* one, otherwise the prompt; without a selected repository it is the
\* placeholder
C28_FileStatusPriority ==
    /\ Len(details_panel) = 1
    /\ IF IsSome(list_state) /\ Unwrap(list_state) < Len(results)
       THEN LET repo == results[Unwrap(list_state) + 1]
                url == IF IsSome(repo.html_url) THEN Unwrap(repo.html_url) ELSE <<>>
                files == details_panel[1].files
            IN  /\ details_panel[1].widget = "details"
                /\ Len(files) = 1
                /\ counting_files => files[1] = <<"Files: ", "Cloning and counting...">>
                /\ (~counting_files /\ cloning) =>
                      files[1] = <<"Cloning: ", "Please wait...">>
                /\ (~counting_files /\ ~cloning /\ url \in DOMAIN file_counts) =>
                      files[1] = <<"File Count:">> \o file_counts[url]
                /\ (~counting_files /\ ~cloning /\ url \notin DOMAIN file_counts) =>
                      files[1] = <<"Files: ", "Press 'f' to count">>
       ELSE details_panel[1].widget = "empty"
    /\ pc \in {"run_tui", "clone_call", "count_call", "perform_search"} =>
         screen.details = details_panel

\* the selected repository is being cloned while its file count is
\* cached: the screen shows the cloning status
C28_Witness ==
    /\ pc = "clone_call"
    /\ list_state = Some(0)
    /\ UrlOf(1) \in DOMAIN file_counts
    /\ screen.details[1].files = << <<"Cloning: ", "Please wait...">> >>

\* C29: in every reachable state repo_size_filter is None, small, medium
\* or large
C29_FilterIsSizeName ==
    repo_size_filter \in { None, Some("small"), Some("medium"), Some("large") }

\* C30: every dispatched search, clone and file count is followed by a
\* state in which run_tui waits for an event and no in-flight flag is set
C30_DispatchCompletes ==
    (pc = "dispatch" /\ ~IsUrl(Unwrap(action))) ~> (pc = "run_tui" /\ FlagsSet = {})

\* a search, a file count and a clone have been dispatched and completed
C30_Witness ==
    /\ pc = "run_tui"
    /\ total_count # None
    /\ IsSome(clone_status)
    /\ DOMAIN file_counts # {}
    /\ FlagsSet = {}
    /\ list_state = Some(2)

\* C31: whenever clone_and_count_files has returned, with Ok or with any
\* Err, the temporary directory it created does not exist
C31_TempDirRemoved ==
    (pc = "count_call" /\ Returned) => ~temp_dir

====
